---- MODULE Spec2Model ----
(***************************************************************************)
(* NutriVision: the nutrition context (profile + meal ledger over          *)
(* AsyncStorage), the profile screen that builds and saves a profile, and  *)
(* the API client (food prediction, coaching tip).                         *)
(*                                                                         *)
(* React state is modelled with two copies: the state cell itself          *)
(* (mealsState, profileState: the value of the last setXState call) and    *)
(* the value captured by the closures of the last render (meals, profile). *)
(* A handler reads the closure value; Render makes the state cell visible. *)
(* An async handler is split at its await: the synchronous part is one     *)
(* action, the continuation after the awaited promise another.             *)
(* AsyncStorage serves its requests one at a time in the order issued,     *)
(* except in SpecStore, where overlapping writes complete in any order.    *)
(***************************************************************************)
EXTENDS Integers, Sequences, FiniteSets, TLC

VARIABLES
    now,            \* Date.now(): the clock reading
    store,          \* AsyncStorage: [profile |-> item, meals |-> item]
    readData,       \* what the two getItem calls of loadData deliver
    isLoading,      \* useState(true)
    profileState,   \* React state cell of `profile`: <<>> (null) or <<p>>
    mealsState,     \* React state cell of `meals`
    profile,        \* `profile` as captured by the last render
    meals,          \* `meals` as captured by the last render
    pendingWrites,  \* setItem requests issued and not yet served
    calls,          \* every setProfile/addMeal/removeMeal call and its outcome
    form,           \* ProfileScreen's useState cells
    adviceCalls,    \* getCoachingTip calls
    predictCalls,   \* predictFood calls
    consoleErrors,  \* what the provider's catch blocks gave console.error
    dashboard,      \* DashboardScreen's useState cells and its last render
    evaluation,     \* the last call of a function of lib/nutrition-logic.ts
    scan            \* ScanScreen's useState cells

vars == <<now, store, readData, isLoading, profileState, mealsState, profile,
          meals, pendingWrites, calls, form, adviceCalls, predictCalls,
          consoleErrors, dashboard, evaluation, scan>>

providerVars == <<now, store, readData, isLoading, profileState, mealsState,
                  profile, meals, pendingWrites, calls, consoleErrors>>

apiVars == <<adviceCalls, predictCalls>>

----------------------------------------------------------------------------
(* Bounds of the model *)

MaxClock == 3        \* clock readings 1..MaxClock
MaxCalls == 2        \* calls of the context's operations, in Spec
MaxLedgerCalls == 3  \* calls of addMeal / removeMeal, in SpecLedger
MaxSaves == 1        \* calls of setProfile, in SpecProfile
MaxQuantity == 2     \* quantity chosen on the scan screen before logging
MaxApiCalls == 2     \* API client calls recorded per endpoint
MaxLoadCalls == 1    \* calls of addMeal / removeMeal, in SpecLoad
MaxDashboardCalls == 2  \* calls of addMeal / removeMeal, in SpecDashboard
MaxScanCalls == 1    \* calls of addMeal, in SpecScan
MaxPresses == 3      \* presses of the quantity selector before a meal is logged
MaxFlowLogs == 2     \* calls of addMeal, in SpecFlow

TicksPerDay == 2     \* clock readings per calendar day of the model

----------------------------------------------------------------------------
(* Small helpers *)

Range(s) == {s[i] : i \in 1..Len(s)}

RECURSIVE SumCalories(_)
SumCalories(s) == IF s = <<>> THEN 0 ELSE s[1].calories + SumCalories(Tail(s))

\* JavaScript numbers: integers, plus NaN as a value no arithmetic produces.
NaN == -999999999

IsNaN(x) == x = NaN

\* No function of lib/nutrition-logic.ts has been called yet
NotEvaluated == [fn |-> "none", args |-> <<>>, result |-> <<>>]

----------------------------------------------------------------------------
(* JavaScript strings.  A string of the model is named by its literal; the  *)
(* functions that look at its characters work on Spelling[s], the sequence  *)
(* of its characters.                                                       *)

Spelling ==
    "sedentary"            :>
        <<"s", "e", "d", "e", "n", "t", "a", "r", "y">> @@
    "lightly_active"       :>
        <<"l", "i", "g", "h", "t", "l", "y", "_", "a", "c", "t", "i", "v", "e">> @@
    "moderately_active"    :>
        <<"m", "o", "d", "e", "r", "a", "t", "e", "l", "y", "_", "a", "c", "t", "i", "v", "e">> @@
    "very_active"          :>
        <<"v", "e", "r", "y", "_", "a", "c", "t", "i", "v", "e">> @@
    "super_active"         :>
        <<"s", "u", "p", "e", "r", "_", "a", "c", "t", "i", "v", "e">> @@
    "Very Active"          :>
        <<"V", "e", "r", "y", " ", "A", "c", "t", "i", "v", "e">> @@
    "VERY_ACTIVE"          :>
        <<"V", "E", "R", "Y", "_", "A", "C", "T", "I", "V", "E">> @@
    "very  active"         :>
        <<"v", "e", "r", "y", " ", " ", "a", "c", "t", "i", "v", "e">> @@
    "lightly active"       :>
        <<"l", "i", "g", "h", "t", "l", "y", " ", "a", "c", "t", "i", "v", "e">> @@
    "unknown_level"        :>
        <<"u", "n", "k", "n", "o", "w", "n", "_", "l", "e", "v", "e", "l">> @@
    "eggs_benedict"        :>
        <<"e", "g", "g", "s", "_", "b", "e", "n", "e", "d", "i", "c", "t">> @@
    "hamburger"            :>
        <<"h", "a", "m", "b", "u", "r", "g", "e", "r">> @@
    "pizza"                :> <<"p", "i", "z", "z", "a">> @@
    "PIZZA"                :> <<"P", "I", "Z", "Z", "A">> @@
    "pizza "               :> <<"p", "i", "z", "z", "a", " ">> @@
    "Pizza"                :> <<"P", "i", "z", "z", "a">> @@
    "Eggs Benedict"        :>
        <<"E", "g", "g", "s", " ", "B", "e", "n", "e", "d", "i", "c", "t">> @@
    "eggs  benedict"       :>
        <<"e", "g", "g", "s", " ", " ", "b", "e", "n", "e", "d", "i", "c", "t">> @@
    "unknown_xyz"          :>
        <<"u", "n", "k", "n", "o", "w", "n", "_", "x", "y", "z">> @@
    "chicken_quesadilla"   :>
        <<"c", "h", "i", "c", "k", "e", "n", "_", "q", "u", "e", "s", "a", "d", "i", "l", "l", "a">> @@
    "Chicken Quesadilla"   :>
        <<"C", "h", "i", "c", "k", "e", "n", " ", "Q", "u", "e", "s", "a", "d", "i", "l", "l", "a">> @@
    "chicken__wings"       :>
        <<"c", "h", "i", "c", "k", "e", "n", "_", "_", "w", "i", "n", "g", "s">> @@
    "Chicken  Wings"       :>
        <<"C", "h", "i", "c", "k", "e", "n", " ", " ", "W", "i", "n", "g", "s">> @@
    "constructor"          :>
        <<"c", "o", "n", "s", "t", "r", "u", "c", "t", "o", "r">> @@
    "Constructor"          :>
        <<"C", "o", "n", "s", "t", "r", "u", "c", "t", "o", "r">> @@
    "__proto__"            :>
        <<"_", "_", "p", "r", "o", "t", "o", "_", "_">> @@
    "toString"             :> <<"t", "o", "S", "t", "r", "i", "n", "g">> @@
    "valueOf"              :> <<"v", "a", "l", "u", "e", "O", "f">> @@
    "hasOwnProperty"       :>
        <<"h", "a", "s", "O", "w", "n", "P", "r", "o", "p", "e", "r", "t", "y">>

LowerCaseLetters ==
    <<"a", "b", "c", "d", "e", "f", "g", "h", "i", "j", "k", "l", "m",
      "n", "o", "p", "q", "r", "s", "t", "u", "v", "w", "x", "y", "z">>

UpperCaseLetters ==
    <<"A", "B", "C", "D", "E", "F", "G", "H", "I", "J", "K", "L", "M",
      "N", "O", "P", "Q", "R", "S", "T", "U", "V", "W", "X", "Y", "Z">>

\* The position of c in the sequence `letters`, 0 when it is not in it
LetterIndex(letters, c) ==
    IF \E i \in 1..Len(letters) : letters[i] = c
    THEN CHOOSE i \in 1..Len(letters) : letters[i] = c
    ELSE 0

\* String.prototype.toLowerCase / toUpperCase, on a sequence of characters
ToLowerCase(text) ==
    [i \in 1..Len(text) |->
        IF LetterIndex(UpperCaseLetters, text[i]) = 0 THEN text[i]
        ELSE LowerCaseLetters[LetterIndex(UpperCaseLetters, text[i])]]

ToUpperCase(text) ==
    [i \in 1..Len(text) |->
        IF LetterIndex(LowerCaseLetters, text[i]) = 0 THEN text[i]
        ELSE UpperCaseLetters[LetterIndex(LowerCaseLetters, text[i])]]

\* What the class \s of a regular expression matches
IsWhitespace(c) == c \in {" ", "\t", "\n"}

\* text.replace(/\s+/g, '_'): every maximal run of whitespace becomes one
\* underscore
RECURSIVE ReplaceWhitespaceRuns(_)
ReplaceWhitespaceRuns(text) ==
    IF text = <<>> THEN <<>>
    ELSE IF IsWhitespace(text[1])
         THEN IF Len(text) > 1 /\ IsWhitespace(text[2])
              THEN ReplaceWhitespaceRuns(Tail(text))
              ELSE <<"_">> \o ReplaceWhitespaceRuns(Tail(text))
         ELSE <<text[1]>> \o ReplaceWhitespaceRuns(Tail(text))

\* text.split(sep) for a separator of one character: a sequence of texts
RECURSIVE Split(_, _)
Split(text, sep) ==
    IF \A i \in 1..Len(text) : text[i] # sep THEN <<text>>
    ELSE LET k == CHOOSE i \in 1..Len(text) :
                     /\ text[i] = sep
                     /\ \A j \in 1..(i - 1) : text[j] # sep
         IN  <<SubSeq(text, 1, k - 1)>> \o Split(SubSeq(text, k + 1, Len(text)), sep)

\* words.join(sep)
RECURSIVE Join(_, _)
Join(words, sep) ==
    IF words = <<>> THEN <<>>
    ELSE IF Len(words) = 1 THEN words[1]
    ELSE words[1] \o <<sep>> \o Join(Tail(words), sep)

\* Reading obj[key] of an object literal finds the object's own property, or
\* else the member of that name that every object inherits from
\* Object.prototype, or else undefined.
ObjectPrototypeKeys ==
    {Spelling[k] : k \in {"constructor", "__proto__", "toString", "valueOf", "hasOwnProperty"}}

\* obj has an own property whose name is spelled key
HasOwn(obj, key) == \E k \in DOMAIN obj : Spelling[k] = key

Own(obj, key) == obj[CHOOSE k \in DOMAIN obj : Spelling[k] = key]

\* The member of Object.prototype of that name: a function or an object,
\* which is truthy, has no property of the application and is NaN as a number
Inherited(key) == [inherited |-> key]

----------------------------------------------------------------------------
(* The clock: new Date() *)

\* new Date().toISOString().split('T')[0]
DateOf(t) == "2025-01-0" \o ToString(2 + ((t - 1) \div TicksPerDay))

\* now.toTimeString().slice(0, 5)
TimeOf(t) == "12:0" \o ToString(t % 10)

\* Date.now().toString()
NewId(t) == ToString(t)

----------------------------------------------------------------------------
(* lib/nutrition-logic.ts *)

\* ACTIVITY_MULTIPLIERS, in fortieths: 1.2, 1.375, 1.55, 1.725, 1.9
ACTIVITY_MULTIPLIERS ==
    [ sedentary         |-> 48,
      lightly_active    |-> 55,
      moderately_active |-> 62,
      very_active       |-> 69,
      super_active      |-> 76 ]

\* A calculateBMR that rounds its result to whole kcal
CalculateBMR_Rounded(gender, weight_kg, height_cm, age) ==
    LET baseCalc == (40 * weight_kg) + (25 * height_cm) - (20 * age)
        exact == IF gender = "male" THEN baseCalc + 20
                 ELSE IF gender = "female" THEN baseCalc - 644
                 ELSE baseCalc - 312
    IN  4 * ((2 * exact + 4) \div 8)

\* calculateBMR, in quarters of a kcal (6.25 * height is a multiple of 0.25
\* for the whole-number heights of the model); NaN in, NaN out
CalculateBMR(gender, weight_kg, height_cm, age) ==
    IF IsNaN(weight_kg) \/ IsNaN(height_cm) \/ IsNaN(age) THEN NaN
    ELSE LET baseCalc == (40 * weight_kg) + (25 * height_cm) - (20 * age)
         IN  IF gender = "male" THEN baseCalc + 20
             ELSE IF gender = "female" THEN baseCalc - 644
             ELSE baseCalc - 312

\* Math.round: the nearest integer, a tie going up; n / d with d > 0
MathRound(n, d) == (2 * n + d) \div (2 * d)

\* activityLevel.toLowerCase().replace(/\s+/g, '_'), as characters
NormalizeKey(s) == ReplaceWhitespaceRuns(ToLowerCase(Spelling[s]))

\* calculateTDEE of a bmr given in quarters.  `ACTIVITY_MULTIPLIERS[level] ||
\* 1.2` is the own entry, or the inherited member (truthy, NaN as a factor),
\* or 1.2; Math.round(NaN) is NaN.
CalculateTDEE(bmr, activityLevel) ==
    LET normalizedLevel == NormalizeKey(activityLevel)
        multiplier == IF HasOwn(ACTIVITY_MULTIPLIERS, normalizedLevel)
                      THEN Own(ACTIVITY_MULTIPLIERS, normalizedLevel)
                      ELSE IF normalizedLevel \in ObjectPrototypeKeys THEN NaN
                      ELSE 48
    IN  IF IsNaN(bmr) \/ IsNaN(multiplier) THEN NaN
        ELSE MathRound(bmr * multiplier, 160)

\* FOOD_101_NUTRITION_MAP, the entries of the labels the model logs
FOOD_101_NUTRITION_MAP ==
    [ eggs_benedict |-> [calories |-> 600, unit |-> "serving"],
      hamburger     |-> [calories |-> 295, unit |-> "burger"],
      pizza         |-> [calories |-> 266, unit |-> "slice"] ]

\* Labels the classifier is taken to return
Labels == {"eggs_benedict", "hamburger"}

\* A getNutritionInfo without its toLowerCase
GetNutritionInfo_CaseSensitive(foodLabel) ==
    LET normalized == ReplaceWhitespaceRuns(Spelling[foodLabel])
    IN  IF HasOwn(FOOD_101_NUTRITION_MAP, normalized)
        THEN Own(FOOD_101_NUTRITION_MAP, normalized)
        ELSE IF normalized \in ObjectPrototypeKeys THEN Inherited(normalized)
        ELSE [calories |-> 250, unit |-> "serving (est)"]

\* getNutritionInfo: `FOOD_101_NUTRITION_MAP[normalized] || fallback` is the
\* own entry, or the inherited member (truthy, so returned as it is), or the
\* fallback
GetNutritionInfo(foodLabel) ==
    LET normalized == NormalizeKey(foodLabel)
    IN  IF HasOwn(FOOD_101_NUTRITION_MAP, normalized)
        THEN Own(FOOD_101_NUTRITION_MAP, normalized)
        ELSE IF normalized \in ObjectPrototypeKeys THEN Inherited(normalized)
        ELSE [calories |-> 250, unit |-> "serving (est)"]

\* formatFoodLabel, as characters
Capitalize(word) ==
    IF word = <<>> THEN <<>> ELSE ToUpperCase(<<word[1]>>) \o Tail(word)

\* A formatFoodLabel without its toLowerCase
FormatFoodLabel_KeepsCase(label) ==
    LET words == Split(Spelling[label], "_")
    IN  Join([i \in 1..Len(words) |-> Capitalize(words[i])], " ")

FormatFoodLabel(label) ==
    LET words == Split(ToLowerCase(Spelling[label]), "_")
    IN  Join([i \in 1..Len(words) |-> Capitalize(words[i])], " ")

----------------------------------------------------------------------------
(* AsyncStorage items and JSON *)

Absent == [kind |-> "absent", data |-> <<>>]

Malformed == [kind |-> "malformed", data |-> <<>>]

\* An item holds JSON text; the model keeps the value the text parses to.
\* JSON.stringify writes a number that is NaN as null.
JsonNull == -999999998

JsonNumber(x) == IF IsNaN(x) THEN JsonNull ELSE x

JSONStringifyMeals(ms) == [kind |-> "json", data |-> ms]

JSONStringifyProfile(p) ==
    [kind |-> "json",
     data |-> [weight_kg |-> JsonNumber(p.weight_kg),
               height_cm |-> JsonNumber(p.height_cm),
               age |-> JsonNumber(p.age),
               gender |-> p.gender,
               activity_level |-> p.activity_level,
               bmr |-> JsonNumber(p.bmr),
               tdee |-> JsonNumber(p.tdee),
               goal |-> p.goal]]

JSONParse(item) == item.data

\* `if (profileData)`: null and the empty string are falsy
Truthy(item) == item.kind # "absent"

ParseThrows_Never(item) == FALSE

\* JSON.parse throws on a malformed item
ParseThrows(item) == item.kind = "malformed"

----------------------------------------------------------------------------
(* lib/nutrition-context.tsx: NutritionProvider *)

\* A call of setProfile / addMeal / removeMeal as the caller sees it: pending
\* until the async function settles, then resolved or rejected.  `arg` is the
\* profile, the entry built by addMeal, or [id |-> mealId]; `write` follows
\* the call's setItem request; `prior` is the ledger when the call was made
\* and `seen` the ledger the call's closure held; `alert` is what the screen
\* that made the call shows once the call has settled (<<>>: nothing yet).
NewCall_NoAwait(op, arg) ==
    [op |-> op, arg |-> arg, status |-> "resolved", write |-> "pending",
     prior |-> mealsState, seen |-> meals, alert |-> <<>>]

NewCall(op, arg) ==
    [op |-> op, arg |-> arg, status |-> "pending", write |-> "pending",
     prior |-> mealsState, seen |-> meals, alert |-> <<>>]

\* `await AsyncStorage.setItem(key, value)`: the request is queued behind the
\* requests issued before it, and the call stays pending until it is served.
IssueWrite(key, value, op, arg) ==
    /\ calls' = Append(calls, NewCall(op, arg))
    /\ pendingWrites' = Append(pendingWrites,
                               [key |-> key, value |-> value,
                                call |-> Len(calls) + 1])

\* The catch block of loadData: the error goes to console.error
LoadCatch(error) == [message |-> "Error loading nutrition data:", error |-> error]

\* loadData, from the point where Promise.all has settled.  The two getItem
\* requests were issued on mount, ahead of every setItem.
LoadData(readOk) ==
    /\ isLoading
    /\ LET profileThrows == Truthy(readData.profile)
                             /\ ParseThrows(readData.profile)
           mealsThrows == Truthy(readData.meals) /\ ParseThrows(readData.meals)
       IN  /\ profileState' =
                 IF readOk /\ Truthy(readData.profile) /\ ~profileThrows
                 THEN <<JSONParse(readData.profile)>>
                 ELSE profileState
           /\ mealsState' =
                 IF readOk /\ ~profileThrows
                    /\ Truthy(readData.meals) /\ ~mealsThrows
                 THEN JSONParse(readData.meals)
                 ELSE mealsState
           /\ consoleErrors' =
                 IF ~readOk
                 THEN Append(consoleErrors, LoadCatch("StorageError"))
                 ELSE IF profileThrows \/ mealsThrows
                 THEN Append(consoleErrors, LoadCatch("SyntaxError"))
                 ELSE consoleErrors
    /\ isLoading' = FALSE
    /\ UNCHANGED <<evaluation, scan, now, store, readData, profile, meals, pendingWrites, calls,
                   form, dashboard, adviceCalls, predictCalls>>

\* setProfile, up to its await
SetProfile(newProfile) ==
    /\ profileState' = <<newProfile>>
    /\ IssueWrite("profile", JSONStringifyProfile(newProfile),
                  "setProfile", newProfile)

\* addMeal, up to its await
AddMeal(meal) ==
    LET newMeal == [id |-> NewId(now),
                    date |-> meal.date,
                    time |-> meal.time,
                    food_label |-> meal.food_label,
                    calories |-> meal.calories,
                    quantity |-> meal.quantity,
                    unit |-> meal.unit]
        updatedMeals == Append(meals, newMeal)
    IN  /\ mealsState' = updatedMeals
        /\ IssueWrite("meals", JSONStringifyMeals(updatedMeals),
                      "addMeal", newMeal)

\* removeMeal, up to its await
RemoveMeal(mealId) ==
    LET updatedMeals == SelectSeq(meals, LAMBDA meal : meal.id # mealId)
    IN  /\ mealsState' = updatedMeals
        /\ IssueWrite("meals", JSONStringifyMeals(updatedMeals),
                      "removeMeal", [id |-> mealId])

GetTodaysMeals_NoFilter(ms, t) == ms

\* getTodaysMeals, called at clock reading t by a closure holding ms
GetTodaysMeals(ms, t) ==
    LET today == DateOf(t)
    IN  SelectSeq(ms, LAMBDA meal : meal.date = today)

GetTodaysSummary_AllMeals(ms, t) ==
    LET today == DateOf(t)
        todaysMeals == GetTodaysMeals(ms, t)
        totalCalories == SumCalories(ms)
    IN  [date |-> today,
         total_calories |-> totalCalories,
         total_protein |-> MathRound(totalCalories * 3, 40),
         total_carbs |-> MathRound(totalCalories * 9, 80),
         total_fats |-> MathRound(totalCalories, 36),
         meals |-> todaysMeals]

\* A getTodaysSummary that takes fat at 4 kcal per gram
GetTodaysSummary_FatsPer4(ms, t) ==
    LET today == DateOf(t)
        todaysMeals == GetTodaysMeals(ms, t)
        totalCalories == SumCalories(todaysMeals)
    IN  [date |-> today,
         total_calories |-> totalCalories,
         total_protein |-> MathRound(totalCalories * 3, 40),
         total_carbs |-> MathRound(totalCalories * 9, 80),
         total_fats |-> MathRound(totalCalories, 16),
         meals |-> todaysMeals]

\* getTodaysSummary, called at clock reading t by a closure holding ms
GetTodaysSummary(ms, t) ==
    LET today == DateOf(t)
        todaysMeals == GetTodaysMeals(ms, t)
        totalCalories == SumCalories(todaysMeals)
    IN  [date |-> today,
         total_calories |-> totalCalories,
         total_protein |-> MathRound(totalCalories * 3, 40),
         total_carbs |-> MathRound(totalCalories * 9, 80),
         total_fats |-> MathRound(totalCalories, 36),
         meals |-> todaysMeals]

Settled_Swallows(ok) == "resolved"

\* How the awaiting call settles when its setItem is served
Settled(ok) == IF ok THEN "resolved" ELSE "rejected"

\* The catch blocks of setProfile, addMeal and removeMeal, before rethrowing
WriteCatch(op) ==
    [message |-> IF op = "setProfile" THEN "Error saving profile:"
                 ELSE IF op = "addMeal" THEN "Error adding meal:"
                 ELSE "Error removing meal:",
     error |-> "StorageError"]

\* What the caller shows once the call it awaits has settled:
\* handleSaveProfile, handleLogMeal and the Delete button of handleDeleteMeal
CallerAlert(op, status) ==
    IF status = "resolved"
    THEN IF op = "setProfile"
         THEN <<[title |-> "Success", message |-> "Profile saved!"]>>
         ELSE IF op = "addMeal"
         THEN <<[title |-> "Meal Logged!", message |-> "logged"]>>
         ELSE <<>>
    ELSE IF op = "setProfile"
         THEN <<[title |-> "Error",
                 message |-> "Failed to save profile. Please try again."]>>
         ELSE IF op = "addMeal"
         THEN <<[title |-> "Error",
                 message |-> "Failed to log meal. Please try again."]>>
         ELSE <<[title |-> "Error", message |-> "Failed to delete meal."]>>

\* AsyncStorage serves the oldest setItem request; the awaiting call resumes:
\* it returns when the write succeeded, and rethrows when it failed (a promise
\* that has settled stays as it is).
ServeWrite(ok) ==
    /\ pendingWrites # <<>>
    /\ LET w == Head(pendingWrites)
           c == calls[w.call]
           status == IF c.status = "pending" THEN Settled(ok) ELSE c.status
       IN  /\ store' = IF ok THEN [store EXCEPT ![w.key] = w.value] ELSE store
           /\ calls' = [calls EXCEPT
                            ![w.call].write = IF ok THEN "done" ELSE "failed",
                            ![w.call].status = status,
                            ![w.call].alert = CallerAlert(c.op, status)]
           /\ consoleErrors' = IF ok THEN consoleErrors
                                ELSE Append(consoleErrors, WriteCatch(c.op))
    /\ pendingWrites' = Tail(pendingWrites)
    /\ UNCHANGED <<evaluation, scan, now, readData, isLoading, profileState, mealsState,
                   profile, meals, form, dashboard, adviceCalls, predictCalls>>

\* setItem returns a promise per request and the provider awaits each on its
\* own, with no queue between them: here the store completes any one of the
\* requests pending, not only the oldest
ServeAnyWrite(k, ok) ==
    /\ k \in 1..Len(pendingWrites)
    /\ LET w == pendingWrites[k]
           c == calls[w.call]
           status == IF c.status = "pending" THEN Settled(ok) ELSE c.status
       IN  /\ store' = IF ok THEN [store EXCEPT ![w.key] = w.value] ELSE store
           /\ calls' = [calls EXCEPT
                            ![w.call].write = IF ok THEN "done" ELSE "failed",
                            ![w.call].status = status,
                            ![w.call].alert = CallerAlert(c.op, status)]
           /\ consoleErrors' = IF ok THEN consoleErrors
                                ELSE Append(consoleErrors, WriteCatch(c.op))
    /\ pendingWrites' = SubSeq(pendingWrites, 1, k - 1)
                           \o SubSeq(pendingWrites, k + 1, Len(pendingWrites))
    /\ UNCHANGED <<evaluation, scan, now, readData, isLoading, profileState, mealsState,
                   profile, meals, form, dashboard, adviceCalls, predictCalls>>

\* React re-renders: the closures of the new render capture the state cells,
\* and a mounted dashboard, which consumes the context, renders again
Render ==
    /\ <<profile, meals>> # <<profileState, mealsState>>
    /\ profile' = profileState
    /\ meals' = mealsState
    /\ dashboard' = IF dashboard.mounted
                     THEN [dashboard EXCEPT !.renderedAt = now]
                     ELSE dashboard
    /\ UNCHANGED <<evaluation, scan, now, store, readData, consoleErrors, isLoading, profileState,
                   mealsState, pendingWrites, calls, form, adviceCalls,
                   predictCalls>>

\* Time passes
Tick ==
    /\ now < MaxClock
    /\ now' = now + 1
    /\ UNCHANGED <<evaluation, scan, store, readData, consoleErrors, isLoading, profileState,
                   mealsState, profile, meals, pendingWrites, calls, form,
                   dashboard, adviceCalls, predictCalls>>

----------------------------------------------------------------------------
(* app/(tabs)/scan.tsx and app/(tabs)/index.tsx: the callers of the ledger *)

ProfileRequired_Never == FALSE

\* `if (!profile)` of the scan screen and of the dashboard: without a
\* rendered profile they return a notice and none of their controls
ProfileRequired == profile = <<>>

\* handleLogMeal: the entry handed to addMeal for a prediction and a quantity
HandleLogMeal(label, quantity) ==
    /\ LET nutritionInfo == GetNutritionInfo(label)
           totalCalories == nutritionInfo.calories * quantity
       IN  AddMeal([date |-> DateOf(now),
                    time |-> TimeOf(now),
                    food_label |-> label,
                    calories |-> totalCalories,
                    quantity |-> quantity,
                    unit |-> nutritionInfo.unit])
    /\ UNCHANGED <<evaluation, scan, now, store, readData, consoleErrors, isLoading,
                   profileState, profile, meals, form, dashboard, adviceCalls,
                   predictCalls>>

\* The quantity selector: `setQuantity(quantity + 1)` for "+" and
\* `setQuantity(Math.max(1, quantity - 1))` for "-"
ApplyPress_NoFloor(quantity, press) ==
    IF press = "+" THEN quantity + 1 ELSE quantity - 1

ApplyPress(quantity, press) ==
    IF press = "+" THEN quantity + 1
    ELSE IF 1 >= quantity - 1 THEN 1 ELSE quantity - 1

\* The quantity after a sequence of presses, from useState(1)
RECURSIVE QuantityAfter(_)
QuantityAfter(presses) ==
    IF presses = <<>> THEN 1
    ELSE ApplyPress(QuantityAfter(SubSeq(presses, 1, Len(presses) - 1)),
                    presses[Len(presses)])

PressSequences ==
    UNION {[1..n -> {"+", "-"}] : n \in 0..MaxPresses}

\* Labels a prediction shown on the scan screen carries: listed ones and one
\* the table does not list
ScanLabels == Labels \cup {"unknown_xyz"}

\* The quantity selector is pressed any number of times, then Log This Meal
LogAfterPresses ==
    \E label \in ScanLabels, presses \in PressSequences :
        HandleLogMeal(label, QuantityAfter(presses))

\* handleDeleteMeal, from the alert's Delete button
HandleDeleteMeal(mealId) ==
    /\ RemoveMeal(mealId)
    /\ UNCHANGED <<evaluation, scan, now, store, readData, consoleErrors, isLoading,
                   profileState, profile, meals, form, dashboard, adviceCalls,
                   predictCalls>>

----------------------------------------------------------------------------
(* app/(tabs)/profile.tsx: ProfileScreen *)

DigitChars == <<"0", "1", "2", "3", "4", "5", "6", "7", "8", "9">>

IsDigit(c) == \E i \in 1..Len(DigitChars) : DigitChars[i] = c

DigitOf(c) == (CHOOSE i \in 1..Len(DigitChars) : DigitChars[i] = c) - 1

\* The longest prefix of s made of digits
RECURSIVE DigitsPrefix(_)
DigitsPrefix(s) ==
    IF s = <<>> \/ ~IsDigit(s[1]) THEN <<>>
    ELSE <<s[1]>> \o DigitsPrefix(Tail(s))

RECURSIVE NumeralValue(_)
NumeralValue(ds) ==
    IF ds = <<>> THEN 0
    ELSE 10 * NumeralValue(SubSeq(ds, 1, Len(ds) - 1)) + DigitOf(ds[Len(ds)])

\* parseInt(text, 10): an optional sign and the digits that follow; NaN when
\* there is none
ParseInt(text) ==
    LET negative == text # <<>> /\ text[1] = "-"
        body == IF negative THEN Tail(text) ELSE text
        ds == DigitsPrefix(body)
    IN  IF ds = <<>> THEN NaN
        ELSE IF negative THEN 0 - NumeralValue(ds) ELSE NumeralValue(ds)

\* parseFloat(text).  The texts of the model hold no digit after a decimal
\* point, so the number parsed is the integer part.
ParseFloat(text) == ParseInt(text)

RECURSIVE NumeralOf(_)
NumeralOf(n) ==
    IF n < 10 THEN <<DigitChars[n + 1]>>
    ELSE NumeralOf(n \div 10) \o <<DigitChars[(n % 10) + 1]>>

\* Number.prototype.toString
NumberToString(x) ==
    IF IsNaN(x) THEN <<"N", "a", "N">>
    ELSE IF x < 0 THEN <<"-">> \o NumeralOf(0 - x)
    ELSE NumeralOf(x)

\* x <= y and x > y on JavaScript numbers: false when either is NaN
JsLe(x, y) == ~IsNaN(x) /\ ~IsNaN(y) /\ x <= y

JsGt(x, y) == ~IsNaN(x) /\ ~IsNaN(y) /\ x > y

\* `x || fallback` on a number: 0 and NaN are falsy
NumberOr(x, fallback) == IF x = 0 \/ IsNaN(x) THEN fallback ELSE <<x>>

\* The screen before it is mounted
Unmounted ==
    [mounted |-> FALSE, weight |-> <<>>, height |-> <<>>, age |-> <<>>,
     gender |-> "male", activityLevel |-> "moderately_active",
     goal |-> "maintain", tdeeResult |-> <<>>]

\* The useState initialisers, run at the screen's first render
InitialForm(p) ==
    IF p = <<>> THEN [Unmounted EXCEPT !.mounted = TRUE]
    ELSE [mounted |-> TRUE,
          weight |-> NumberToString(p[1].weight_kg),
          height |-> NumberToString(p[1].height_cm),
          age |-> NumberToString(p[1].age),
          gender |-> p[1].gender,
          activityLevel |-> p[1].activity_level,
          goal |-> p[1].goal,
          tdeeResult |-> NumberOr(p[1].tdee, <<>>)]

\* validateInputs on the form f
ValidateInputs(f) ==
    LET w == ParseFloat(f.weight)
        h == ParseFloat(f.height)
        a == ParseInt(f.age)
    IN  /\ ~(f.weight = <<>> \/ f.height = <<>> \/ f.age = <<>>)
        /\ ~(JsLe(w, 0) \/ JsLe(h, 0) \/ JsLe(a, 0))
        /\ ~(JsGt(w, 300) \/ JsGt(h, 250) \/ JsGt(a, 150))

\* The tdee handleCalculateTDEE computes from the form f
CalculatedTDEE(f) ==
    LET w == ParseFloat(f.weight)
        h == ParseFloat(f.height)
        a == ParseInt(f.age)
        bmr == CalculateBMR(f.gender, w, h, a)
    IN  CalculateTDEE(bmr, f.activityLevel)

\* The profile handleSaveProfile builds from the form f
NewProfile(f) ==
    LET w == ParseFloat(f.weight)
        h == ParseFloat(f.height)
        a == ParseInt(f.age)
        bmr == CalculateBMR(f.gender, w, h, a)
    IN  [weight_kg |-> w,
         height_cm |-> h,
         age |-> a,
         gender |-> f.gender,
         activity_level |-> f.activityLevel,
         bmr |-> bmr,
         tdee |-> f.tdeeResult[1],
         goal |-> f.goal]

\* handleSaveProfile's guard
CanSave(f) == ValidateInputs(f) /\ f.tdeeResult # <<>>

\* What the text fields and selectors of the model are set to
WeightTexts == { <<>>, <<"8", "0">>, <<"6", "0">>, <<".">> }

HeightTexts == { <<>>, <<"1", "8", "0">> }

AgeTexts == { <<>>, <<"2", "5">> }

Genders == {"male", "female", "other"}

ActivityLevels == {"sedentary", "moderately_active"}

Goals == {"maintain", "lose"}

\* The first render of the screen runs the useState initialisers
MountProfileScreen ==
    /\ ~form.mounted
    /\ form' = InitialForm(profile)
    /\ UNCHANGED <<evaluation, scan, providerVars, apiVars, dashboard>>

\* onChangeText / onPress of the inputs, shown once loading has finished
EditForm ==
    /\ form.mounted
    /\ ~isLoading
    /\ \/ \E t \in WeightTexts : form' = [form EXCEPT !.weight = t]
       \/ \E t \in HeightTexts : form' = [form EXCEPT !.height = t]
       \/ \E t \in AgeTexts : form' = [form EXCEPT !.age = t]
       \/ \E g \in Genders : form' = [form EXCEPT !.gender = g]
       \/ \E l \in ActivityLevels : form' = [form EXCEPT !.activityLevel = l]
       \/ \E g \in Goals : form' = [form EXCEPT !.goal = g]
    /\ form' # form
    /\ UNCHANGED <<evaluation, scan, providerVars, apiVars, dashboard>>

\* handleCalculateTDEE (an invalid form only raises an alert)
HandleCalculateTDEE ==
    /\ form.mounted
    /\ ~isLoading
    /\ ValidateInputs(form)
    /\ form' = [form EXCEPT !.tdeeResult = <<CalculatedTDEE(form)>>]
    /\ UNCHANGED <<evaluation, scan, providerVars, apiVars, dashboard>>

\* handleSaveProfile from a screen whose state is f, up to the await of
\* setProfile (an invalid form or a missing tdee only raises an alert)
SaveProfile(f) ==
    /\ f.mounted
    /\ ~isLoading
    /\ CanSave(f)
    /\ SetProfile(NewProfile(f))
    /\ UNCHANGED <<evaluation, scan, now, store, readData, consoleErrors, isLoading, mealsState,
                   profile, meals, form, dashboard, adviceCalls, predictCalls>>

HandleSaveProfile == SaveProfile(form)

----------------------------------------------------------------------------
(* lib/api-client.ts: APIClient *)

\* What happens to a request sent with a bounded timeout
Failures == {"timeout", "network_error", "http_error"}

AdviceOutcomes == {"ok", "ok_malformed"} \cup Failures

PredictOutcomes == {"ok", "ok_no_label", "fetch_failed"} \cup Failures

\* Texts the coaching service is taken to answer with
ServiceTips == {"Great choice!"}

NoTip == [coaching_tip |-> <<>>]

NoPrediction == [label |-> <<>>, confidence |-> <<>>]

\* Bodies of a 2xx answer of the coaching service: without and with a tip
AdvicePayloads == {NoTip} \cup {[coaching_tip |-> <<t>>] : t \in ServiceTips}

CoachingCatch_Rethrows(detectedFoodLabel) ==
    [threw |-> TRUE, data |-> [coaching_tip |-> <<>>]]

\* The catch block of getCoachingTip
CoachingCatch(detectedFoodLabel) ==
    [threw |-> FALSE,
     data |-> [coaching_tip |->
                 <<"You've logged " \o detectedFoodLabel
                   \o ". Keep tracking your meals!">>]]

PredictCatch_DefaultLabel ==
    [threw |-> FALSE, error |-> "",
     data |-> [label |-> <<"unknown">>, confidence |-> <<0>>]]

\* The catch block of predictFood
PredictCatch ==
    [threw |-> TRUE,
     error |-> "Failed to predict food. Please try again.",
     data |-> NoPrediction]

\* getCoachingTip, up to the await of the post
GetCoachingTip(userTdee, caloriesConsumed, detectedFoodLabel, detectedFoodCalories, userGoal) ==
    /\ Len(adviceCalls) < MaxApiCalls
    /\ adviceCalls' = Append(adviceCalls,
          [user_tdee |-> userTdee,
           calories_consumed_so_far |-> caloriesConsumed,
           detected_food_label |-> detectedFoodLabel,
           detected_food_calories |-> detectedFoodCalories,
           user_goal |-> userGoal,
           state |-> "REQUESTING",
           outcome |-> "none",
           payload |-> NoTip,
           result |-> [threw |-> FALSE, data |-> NoTip]])
    /\ UNCHANGED <<evaluation, scan, providerVars, form, predictCalls>>

AdviceState_Hangs(outcome) == "REQUESTING"

\* Where a request ends: the try block returned, or the catch block ran
AdviceState(outcome) == IF outcome \in Failures THEN "FAILED" ELSE "SUCCEEDED"

\* getCoachingTip, from the point where the post has settled: a 2xx answer
\* is returned as it is, anything else goes through the catch block.  Every
\* post has the same timeout, so a post times out only after the posts sent
\* before it have settled.
CoachingSettles(i, outcome, payload) ==
    /\ adviceCalls[i].state = "REQUESTING"
    /\ outcome = "timeout" =>
          \A k \in 1..(i - 1) : adviceCalls[k].state # "REQUESTING"
    /\ outcome \in Failures => payload = NoTip
    /\ outcome = "ok_malformed" => payload = NoTip
    /\ outcome = "ok" => payload # NoTip
    /\ adviceCalls' = [adviceCalls EXCEPT ![i] =
          [@ EXCEPT !.state = AdviceState(outcome),
                    !.outcome = outcome,
                    !.payload = payload,
                    !.result = IF outcome \in Failures
                               THEN CoachingCatch(
                                        adviceCalls[i].detected_food_label)
                               ELSE [threw |-> FALSE, data |-> payload]]]
    /\ UNCHANGED <<evaluation, scan, providerVars, form, predictCalls>>

\* predictFood, up to its first await: fetch(imageUri) on the web for a file
\* URI, the post otherwise
PredictFood(imageUri, isBase64, platform) ==
    /\ Len(predictCalls) < MaxApiCalls
    /\ predictCalls' = Append(predictCalls,
          [imageUri |-> imageUri,
           isBase64 |-> isBase64,
           platform |-> platform,
           state |-> "requesting",
           outcome |-> "none",
           payload |-> NoPrediction,
           result |-> [threw |-> FALSE, error |-> "", data |-> NoPrediction]])
    /\ UNCHANGED <<evaluation, providerVars, form, dashboard, adviceCalls>>

\* predictFood, from the point where the call has settled: fetch failed, or
\* the post has settled.  A 2xx answer is returned as it is.
PredictSettles(i, outcome, payload) ==
    /\ predictCalls[i].state = "requesting"
    /\ outcome = "fetch_failed" =>
          ~predictCalls[i].isBase64 /\ predictCalls[i].platform = "web"
    /\ outcome = "ok" <=> payload.label # <<>>
    /\ outcome \notin {"ok", "ok_no_label"} => payload = NoPrediction
    /\ predictCalls' = [predictCalls EXCEPT ![i] =
          [@ EXCEPT !.state = "settled",
                    !.outcome = outcome,
                    !.payload = payload,
                    !.result = IF outcome \in {"ok", "ok_no_label"}
                               THEN [threw |-> FALSE, error |-> "",
                                     data |-> payload]
                               ELSE PredictCatch]]
    /\ UNCHANGED <<evaluation, providerVars, form, dashboard, adviceCalls>>

----------------------------------------------------------------------------
(* app/(tabs)/index.tsx: DashboardScreen *)

\* The dashboard before it is mounted.  `renderedAt` is the clock reading of
\* the last render, at which todaysSummary and todaysMeals were computed;
\* `refreshCall` is the getCoachingTip call onRefresh awaits (0: none).
DashboardUnmounted ==
    [mounted |-> FALSE, coachingTip |-> <<>>, loadingCoaching |-> FALSE,
     refreshing |-> FALSE, refreshCall |-> 0, renderedAt |-> 0]

\* const todaysSummary = getTodaysSummary(), as of the last render
TodaysSummary == GetTodaysSummary(meals, dashboard.renderedAt)

\* const todaysMeals = getTodaysMeals(), as of the last render
TodaysMeals == GetTodaysMeals(meals, dashboard.renderedAt)

\* x - y, Math.max(x, y) and Math.min(x, y) on JavaScript numbers: NaN when
\* either is NaN
JsMinus(x, y) == IF IsNaN(x) \/ IsNaN(y) THEN NaN ELSE x - y

MathMax(x, y) == IF IsNaN(x) \/ IsNaN(y) THEN NaN ELSE IF x >= y THEN x ELSE y

MathMin(x, y) == IF IsNaN(x) \/ IsNaN(y) THEN NaN ELSE IF x <= y THEN x ELSE y

\* Math.max(0, profile.tdee - todaysSummary.total_calories)
CaloriesRemaining ==
    MathMax(0, JsMinus(profile[1].tdee, TodaysSummary.total_calories))

\* `Math.round(caloriePercentage)`, the percentage shown under the bar, where
\* caloriePercentage is Math.min(100, (total_calories / profile.tdee) * 100):
\* NaN for a tdee that is NaN and for 0 / 0, 100 for a positive total over 0
RoundedPercentage ==
    LET total == TodaysSummary.total_calories
        tdee == profile[1].tdee
    IN  IF IsNaN(tdee) \/ (tdee = 0 /\ total = 0) THEN NaN
        ELSE IF tdee = 0 THEN 100
        ELSE IF tdee > 0 THEN MathMin(100, MathRound(100 * total, tdee))
        ELSE MathMin(100, MathRound(0 - 100 * total, 0 - tdee))

\* todaysSummary.total_calories > profile.tdee
IsOverCalories == JsGt(TodaysSummary.total_calories, profile[1].tdee)

\* `if (!profile || todaysMeals.length === 0)`
FetchGuard == profile = <<>> \/ TodaysMeals = <<>>

\* The Coaching Tip section: `loadingCoaching ? <spinner> : coachingTip ?
\* <the tip> : <Ask NutriCoach>`; the tip is on display in the middle case
TipDisplayed ==
    /\ dashboard.mounted
    /\ profile # <<>>
    /\ ~dashboard.loadingCoaching
    /\ dashboard.coachingTip # <<>>

\* fetchCoachingTip, up to the await of getCoachingTip; `refresh` tells that
\* onRefresh made the call.  Setting state makes the screen render again.
FetchCoachingTip(refresh) ==
    /\ dashboard.mounted
    /\ IF FetchGuard
       THEN /\ dashboard' = [dashboard EXCEPT !.coachingTip = <<>>,
                                               !.renderedAt = now]
            /\ UNCHANGED <<evaluation, scan, providerVars, form, apiVars>>
       ELSE LET lastMeal == TodaysMeals[Len(TodaysMeals)]
                caloriesBeforeLast ==
                    TodaysSummary.total_calories - lastMeal.calories
            IN  /\ GetCoachingTip(profile[1].tdee, caloriesBeforeLast,
                                  lastMeal.food_label, lastMeal.calories,
                                  profile[1].goal)
                /\ dashboard' =
                      [dashboard EXCEPT
                          !.loadingCoaching = TRUE,
                          !.refreshing = refresh \/ @,
                          !.refreshCall = IF refresh THEN Len(adviceCalls) + 1
                                          ELSE @,
                          !.renderedAt = now]

\* fetchCoachingTip, from the point where getCoachingTip has settled, and
\* onRefresh after it when it made the call
FetchSettles(i, outcome, payload) ==
    /\ dashboard.mounted
    /\ CoachingSettles(i, outcome, payload)
    /\ LET response == adviceCalls'[i].result
       IN  dashboard' =
              [dashboard EXCEPT
                  !.coachingTip =
                      IF response.threw THEN <<"Keep tracking your meals!">>
                      ELSE response.data.coaching_tip,
                  !.loadingCoaching = FALSE,
                  !.refreshing = IF dashboard.refreshCall = i THEN FALSE ELSE @,
                  !.refreshCall = IF @ = i THEN 0 ELSE @,
                  !.renderedAt = now]

\* The Ask NutriCoach button: shown while no tip is shown and none is being
\* fetched, disabled without a meal listed
AskNutriCoach ==
    /\ profile # <<>>
    /\ ~dashboard.loadingCoaching
    /\ dashboard.coachingTip = <<>>
    /\ TodaysMeals # <<>>
    /\ FetchCoachingTip(FALSE)

\* The Refresh link: shown with a tip, disabled while one is being fetched
RefreshTip ==
    /\ profile # <<>>
    /\ dashboard.coachingTip # <<>>
    /\ ~dashboard.loadingCoaching
    /\ FetchCoachingTip(FALSE)

\* onRefresh: the pull-to-refresh of the scroll view, rendered with a profile
OnRefresh ==
    /\ profile # <<>>
    /\ ~dashboard.refreshing
    /\ FetchCoachingTip(TRUE)

----------------------------------------------------------------------------
(* app/(tabs)/scan.tsx: ScanScreen *)

\* The useState initialisers of the screen.  `closed` is not a state cell: it
\* holds the calls of addMeal whose "Meal Logged!" alert has had its OK
\* pressed.  The screen renders after each of its own updates, before the next
\* press is handled.
ScanReady ==
    [scanState |-> "ready", selectedImage |-> <<>>, prediction |-> <<>>,
     quantity |-> 1, isLoading |-> FALSE, closed |-> {}]

\* Platform.OS of the build that is followed: a native one, where the image
\* goes into the form as a file and Alert.alert shows a dialog
FlowPlatforms == {"android"}

\* URIs the camera and the image picker deliver
ImageUris == {"file:///a.jpg", "file:///b.jpg"}

\* Bodies of a 2xx answer of the classifier: without a label, with an empty
\* one, with a food's name
ScanPayloads ==
    {NoPrediction, [label |-> <<"">>, confidence |-> <<0>>]}
        \cup {[label |-> <<l>>, confidence |-> <<90>>] : l \in Labels}

\* `result && result.label`: a label that is missing or '' is falsy
HasLabel_Always(result) == TRUE

HasLabel(result) == result.label # <<>> /\ result.label[1] # ""

\* A "Meal Logged!" alert is on the screen; an alert takes every press until
\* its button is pressed
MealLoggedAlert(i) ==
    /\ i \in 1..Len(calls)
    /\ calls[i].op = "addMeal"
    /\ calls[i].status = "resolved"
    /\ i \notin scan.closed

AlertUp == \E i \in 1..Len(calls) : MealLoggedAlert(i)

\* A control of the screen can be pressed
ScanControls == ~ProfileRequired /\ ~AlertUp

\* A press or an alert button that touches the screen's cells only
ScanStep(next) ==
    /\ scan' = next
    /\ UNCHANGED <<evaluation, providerVars, form, apiVars, dashboard>>

\* handleStartCamera, with the permission granted
HandleStartCamera ==
    /\ ScanControls
    /\ scan.scanState = "ready"
    /\ ScanStep([scan EXCEPT !.scanState = "camera"])

\* The Cancel button of the camera view
CancelCamera ==
    /\ ScanControls
    /\ scan.scanState = "camera"
    /\ ScanStep([scan EXCEPT !.scanState = "ready"])

\* capturePhoto, with the photo taken by the camera view
CapturePhoto(uri) ==
    /\ ScanControls
    /\ scan.scanState = "camera"
    /\ ScanStep([scan EXCEPT !.selectedImage = <<uri>>,
                             !.scanState = "preview"])

\* handleGallerySelect, with an image picked
HandleGallerySelect(uri) ==
    /\ ScanControls
    /\ scan.scanState = "ready"
    /\ ScanStep([scan EXCEPT !.selectedImage = <<uri>>,
                             !.scanState = "preview"])

\* The Cancel button of the preview
CancelPreview ==
    /\ ScanControls
    /\ scan.scanState = "preview"
    /\ ScanStep([scan EXCEPT !.selectedImage = <<>>, !.scanState = "ready"])

\* handleAnalyzeFood, up to the await of predictFood; the button is disabled
\* while isLoading, and without an image the handler only raises an alert
HandleAnalyzeFood(platform) ==
    /\ ScanControls
    /\ scan.scanState = "preview"
    /\ ~scan.isLoading
    /\ scan.selectedImage # <<>>
    /\ PredictFood(scan.selectedImage[1], FALSE, platform)
    /\ scan' = [scan EXCEPT !.isLoading = TRUE, !.scanState = "analyzing"]

\* A continuation that turns isLoading off in its try block only
AnalyzeSettles_NoFinally(i, outcome, payload) ==
    /\ PredictSettles(i, outcome, payload)
    /\ LET result == predictCalls'[i].result
       IN  scan' =
              IF ~result.threw /\ HasLabel(result.data)
              THEN [scan EXCEPT !.prediction = <<result.data>>,
                                !.scanState = "result",
                                !.isLoading = FALSE]
              ELSE [scan EXCEPT !.scanState = "preview"]

\* handleAnalyzeFood, from the point where predictFood has settled
AnalyzeSettles(i, outcome, payload) ==
    /\ PredictSettles(i, outcome, payload)
    /\ LET result == predictCalls'[i].result
       IN  scan' =
              IF ~result.threw /\ HasLabel(result.data)
              THEN [scan EXCEPT !.prediction = <<result.data>>,
                                !.scanState = "result",
                                !.isLoading = FALSE]
              ELSE [scan EXCEPT !.scanState = "preview",
                                !.isLoading = FALSE]

\* The quantity selector of the result view
PressQuantity(press) ==
    /\ ScanControls
    /\ scan.scanState = "result"
    /\ scan.prediction # <<>>
    /\ ApplyPress(scan.quantity, press) <= MaxQuantity
    /\ ScanStep([scan EXCEPT !.quantity = ApplyPress(@, press)])

\* Log This Meal: handleLogMeal with the prediction and the quantity shown
LogThisMeal ==
    /\ ScanControls
    /\ scan.scanState = "result"
    /\ scan.prediction # <<>>
    /\ HandleLogMeal(scan.prediction[1].label[1], scan.quantity)

\* The four setters shared by the Back button and the alert's OK
ScanReset ==
    [scan EXCEPT !.selectedImage = <<>>, !.prediction = <<>>,
                 !.quantity = 1, !.scanState = "ready"]

\* The Back button of the result view
BackFromResult ==
    /\ ScanControls
    /\ scan.scanState = "result"
    /\ scan.prediction # <<>>
    /\ ScanStep(ScanReset)

\* The OK button of the "Meal Logged!" alert of call i
CloseMealLogged(i) ==
    /\ MealLoggedAlert(i)
    /\ ScanStep([ScanReset EXCEPT !.closed = @ \cup {i}])

----------------------------------------------------------------------------
(* Initial states and specifications *)

\* A profile and an entry saved by an earlier session
StoredProfile ==
    [weight_kg |-> 80, height_cm |-> 180, age |-> 25, gender |-> "male",
     activity_level |-> "moderately_active",
     bmr |-> CalculateBMR("male", 80, 180, 25),
     tdee |-> CalculateTDEE(CalculateBMR("male", 80, 180, 25),
                            "moderately_active"),
     goal |-> "maintain"]

StoredMeal ==
    [id |-> NewId(0), date |-> DateOf(0), time |-> TimeOf(0),
     food_label |-> "hamburger", calories |-> 295, quantity |-> 1,
     unit |-> "burger"]

InitialProfileItems == {Absent, Malformed, JSONStringifyProfile(StoredProfile)}

InitialMealsItems == {Absent, Malformed, JSONStringifyMeals(<<StoredMeal>>)}

Init ==
    /\ now = 1
    /\ store \in [profile : InitialProfileItems, meals : InitialMealsItems]
    /\ readData = store
    /\ isLoading = TRUE
    /\ profileState = <<>>
    /\ mealsState = <<>>
    /\ profile = <<>>
    /\ meals = <<>>
    /\ pendingWrites = <<>>
    /\ calls = <<>>
    /\ form = Unmounted
    /\ adviceCalls = <<>>
    /\ predictCalls = <<>>
    /\ consoleErrors = <<>>
    /\ dashboard = DashboardUnmounted
    /\ evaluation = NotEvaluated
    /\ scan = ScanReady

\* Ids a delete can name: those of the entries held, and one of no entry
MealIds == {NewId(t) : t \in 0..MaxClock}

\* The state of the profile screen from which the ledger's specification
\* saves: the stored profile's fields with the tdee calculated from them
SavingForm == InitialForm(<<StoredProfile>>)

\* The nutrition context once loadData has finished and the screens, which
\* show no control before that and none of the ledger's without a profile,
\* have rendered: the stored profile and the stored meals, if any.
InitLoaded ==
    /\ now = 1
    /\ \E item \in {Absent, JSONStringifyMeals(<<StoredMeal>>)} :
          /\ store = [profile |-> JSONStringifyProfile(StoredProfile),
                      meals |-> item]
          /\ mealsState = IF Truthy(item) THEN JSONParse(item) ELSE <<>>
    /\ readData = store
    /\ isLoading = FALSE
    /\ profileState = <<JSONParse(store.profile)>>
    /\ profile = profileState
    /\ meals = mealsState
    /\ pendingWrites = <<>>
    /\ calls = <<>>
    /\ form = Unmounted
    /\ adviceCalls = <<>>
    /\ predictCalls = <<>>
    /\ consoleErrors = <<>>
    /\ dashboard = DashboardUnmounted
    /\ evaluation = NotEvaluated
    /\ scan = ScanReady

\* The nutrition context and its callers, for a bounded number of calls
Next ==
    \/ /\ Len(calls) < MaxCalls
       /\ \/ \E label \in Labels, quantity \in 1..MaxQuantity :
                HandleLogMeal(label, quantity)
          \/ \E mealId \in MealIds : HandleDeleteMeal(mealId)
          \/ SaveProfile(SavingForm)
    \/ \E ok \in BOOLEAN : ServeWrite(ok)
    \/ Render
    \/ Tick

Spec == InitLoaded /\ [][Next]_vars

\* The meal ledger alone, for longer runs of addMeal and removeMeal
NextLedger ==
    \/ /\ Len(calls) < MaxLedgerCalls
       /\ \/ \E label \in Labels, quantity \in 1..MaxQuantity :
                HandleLogMeal(label, quantity)
          \/ \E mealId \in MealIds : HandleDeleteMeal(mealId)
    \/ \E ok \in BOOLEAN : ServeWrite(ok)
    \/ Render
    \/ Tick

SpecLedger == InitLoaded /\ [][NextLedger]_vars

\* The nutrition context over a store that completes overlapping writes in
\* any order
NextStore ==
    \/ /\ Len(calls) < MaxCalls
       /\ \/ \E label \in Labels, quantity \in 1..MaxQuantity :
                HandleLogMeal(label, quantity)
          \/ \E mealId \in MealIds : HandleDeleteMeal(mealId)
          \/ SaveProfile(SavingForm)
    \/ \E k \in 1..MaxCalls, ok \in BOOLEAN : ServeAnyWrite(k, ok)
    \/ Render
    \/ Tick

SpecStore == InitLoaded /\ [][NextStore]_vars

\* The profile screen over the nutrition context
InitProfile ==
    /\ Init
    /\ store.profile # Malformed
    /\ store.meals = Absent

\* The screen is followed up to its last save and that save's outcome.
NextProfile ==
    \/ \E readOk \in BOOLEAN : LoadData(readOk)
    \/ MountProfileScreen
    \/ /\ Len(calls) < MaxSaves
       /\ \/ EditForm
          \/ HandleCalculateTDEE
          \/ HandleSaveProfile
    \/ \E ok \in BOOLEAN : ServeWrite(ok)
    \/ Render

SpecProfile == InitProfile /\ [][NextProfile]_vars

\* Startup: loadData over every combination of stored records, then the
\* ledger's callers, whose screens show no control without a rendered
\* profile.  getItem settles, so loadData resumes.
NextLoad ==
    \/ \E readOk \in BOOLEAN : LoadData(readOk)
    \/ /\ ~ProfileRequired
       /\ Len(calls) < MaxLoadCalls
       /\ \/ \E label \in Labels, quantity \in 1..MaxQuantity :
                HandleLogMeal(label, quantity)
          \/ \E mealId \in MealIds : HandleDeleteMeal(mealId)
    \/ \E ok \in BOOLEAN : ServeWrite(ok)
    \/ Render

SpecLoad ==
    /\ Init
    /\ [][NextLoad]_vars
    /\ WF_vars(\E readOk \in BOOLEAN : LoadData(readOk))

\* A stored profile whose daily target is 2500 kcal
DashboardProfile ==
    [weight_kg |-> 60, height_cm |-> 180, age |-> 23, gender |-> "female",
     activity_level |-> "very_active",
     bmr |-> CalculateBMR("female", 60, 180, 23),
     tdee |-> CalculateTDEE(CalculateBMR("female", 60, 180, 23),
                            "very_active"),
     goal |-> "lose"]

\* The dashboard, mounted over a loaded context: with or without a stored
\* profile, the ledger holding an entry of an earlier day
InitDashboard ==
    /\ now = 1
    /\ \E item \in {Absent, JSONStringifyProfile(DashboardProfile)} :
          /\ store = [profile |-> item,
                      meals |-> JSONStringifyMeals(<<StoredMeal>>)]
          /\ profileState = IF Truthy(item) THEN <<JSONParse(item)>> ELSE <<>>
    /\ readData = store
    /\ isLoading = FALSE
    /\ mealsState = JSONParse(store.meals)
    /\ profile = profileState
    /\ meals = mealsState
    /\ pendingWrites = <<>>
    /\ calls = <<>>
    /\ form = Unmounted
    /\ adviceCalls = <<>>
    /\ predictCalls = <<>>
    /\ consoleErrors = <<>>
    /\ dashboard = [DashboardUnmounted EXCEPT !.mounted = TRUE,
                                              !.renderedAt = now]
    /\ evaluation = NotEvaluated
    /\ scan = ScanReady

\* The dashboard's controls, the scan screen's Log This Meal and the Delete
\* buttons of the meals listed; every screen but the profile's shows its
\* controls only with a profile
NextDashboard ==
    \/ /\ profile # <<>>
       /\ Len(calls) < MaxDashboardCalls
       /\ \/ \E label \in Labels, quantity \in 1..MaxQuantity :
                HandleLogMeal(label, quantity)
          \/ \E k \in 1..Len(TodaysMeals) : HandleDeleteMeal(TodaysMeals[k].id)
    \/ \E ok \in BOOLEAN : ServeWrite(ok)
    \/ Render
    \/ Tick
    \/ AskNutriCoach
    \/ RefreshTip
    \/ OnRefresh
    \/ \E i \in 1..Len(adviceCalls), outcome \in AdviceOutcomes,
          payload \in AdvicePayloads :
          FetchSettles(i, outcome, payload)

SpecDashboard == InitDashboard /\ [][NextDashboard]_vars

\* The API client: coaching
InitApi ==
    /\ Init
    /\ store = [profile |-> Absent, meals |-> Absent]

RequestTdees == {2500}

RequestConsumed == {0, 1200}

NextAdvice ==
    \/ /\ \E tdee \in RequestTdees, consumed \in RequestConsumed,
             label \in Labels, goal \in Goals :
             GetCoachingTip(tdee, consumed, label,
                            GetNutritionInfo(label).calories, goal)
       /\ UNCHANGED dashboard
    \/ /\ \E i \in 1..Len(adviceCalls), outcome \in AdviceOutcomes,
             payload \in AdvicePayloads :
             CoachingSettles(i, outcome, payload)
       /\ UNCHANGED dashboard

SpecAdvice == InitApi /\ [][NextAdvice]_vars

\* The post is sent with `timeout: 45000`, so every request settles
SpecAdviceLive ==
    /\ SpecAdvice
    /\ \A i \in 1..MaxApiCalls :
          WF_vars(/\ i <= Len(adviceCalls)
                  /\ \E outcome \in AdviceOutcomes, payload \in AdvicePayloads :
                       CoachingSettles(i, outcome, payload)
                  /\ UNCHANGED dashboard)

\* The API client: food prediction
NextPredict ==
    \/ /\ \E uri \in {"file:///food.jpg"}, isBase64 \in BOOLEAN,
             platform \in {"web", "android"} :
             PredictFood(uri, isBase64, platform)
       /\ UNCHANGED scan
    \/ /\ \E i \in 1..Len(predictCalls), outcome \in PredictOutcomes,
             payload \in {NoPrediction}
                         \cup {[label |-> <<l>>, confidence |-> <<90>>] : l \in Labels} :
             PredictSettles(i, outcome, payload)
       /\ UNCHANGED scan

SpecPredict == InitApi /\ [][NextPredict]_vars

\* The scan screen over a loaded context
NextScan ==
    \/ /\ Len(calls) < MaxScanCalls
       /\ LogAfterPresses
    \/ \E ok \in BOOLEAN : ServeWrite(ok)
    \/ Render
    \/ Tick

SpecScan == InitLoaded /\ [][NextScan]_vars

\* The scan flow: pick or take a photo, analyze it, set the quantity, log
NextFlow ==
    \/ HandleStartCamera
    \/ CancelCamera
    \/ \E uri \in ImageUris : CapturePhoto(uri)
    \/ \E uri \in ImageUris : HandleGallerySelect(uri)
    \/ CancelPreview
    \/ \E platform \in FlowPlatforms : HandleAnalyzeFood(platform)
    \/ \E i \in 1..Len(predictCalls), outcome \in PredictOutcomes,
          payload \in ScanPayloads :
          AnalyzeSettles(i, outcome, payload)
    \/ \E press \in {"+", "-"} : PressQuantity(press)
    \/ /\ Len(calls) < MaxFlowLogs
       /\ LogThisMeal
    \/ BackFromResult
    \/ \E i \in 1..Len(calls) : CloseMealLogged(i)
    \/ \E ok \in BOOLEAN : ServeWrite(ok)
    \/ Render

SpecFlow == InitLoaded /\ [][NextFlow]_vars

\* The post is sent with `timeout: 30000`, so every analysis settles
SpecFlowLive ==
    /\ SpecFlow
    /\ \A i \in 1..MaxApiCalls :
          WF_vars(/\ i <= Len(predictCalls)
                  /\ \E outcome \in PredictOutcomes, payload \in ScanPayloads :
                       AnalyzeSettles(i, outcome, payload))

----------------------------------------------------------------------------
(* lib/nutrition-logic.ts called directly, and through the profile form *)

\* Arguments the functions are called with
BmrWeights == {50, 65, 75, 80}

BmrHeights == {150, 165, 175, 180}

BmrAges == {20, 25, 28, 30}

AllGenders == {"male", "female", "other"}

TdeeBmrs == {7200, 7220, 5481}

LevelInputs ==
    {"sedentary", "lightly_active", "moderately_active", "very_active",
     "super_active", "Very Active", "VERY_ACTIVE", "very  active",
     "lightly active", "unknown_level", "constructor"}

LabelInputs ==
    {"eggs_benedict", "hamburger", "pizza", "PIZZA", "pizza ", "Eggs Benedict",
     "eggs  benedict", "unknown_xyz", "chicken_quesadilla", "chicken__wings",
     "constructor", "Constructor", "toString"}

\* What the profile form's fields are filled with; 0, 301, 251 and 151 are
\* the nearest numbers validateInputs turns away
FormWeights == {0, 10, 80, 300, 301}

FormHeights == {0, 50, 180, 250, 251}

FormAges == {0, 25, 90, 150, 151}

PickerLevels ==
    {"sedentary", "lightly_active", "moderately_active", "very_active",
     "super_active"}

Evaluate(fn, args, result) ==
    /\ evaluation' = [fn |-> fn, args |-> args, result |-> result]
    /\ UNCHANGED <<scan, providerVars, form, apiVars, dashboard>>

CallCalculateBMR ==
    \E g \in AllGenders, w \in BmrWeights, h \in BmrHeights, a \in BmrAges :
        Evaluate("calculateBMR", <<g, w, h, a>>, CalculateBMR(g, w, h, a))

CallCalculateTDEE ==
    \E bmr \in TdeeBmrs, level \in LevelInputs :
        Evaluate("calculateTDEE", <<bmr, level>>, CalculateTDEE(bmr, level))

CallGetNutritionInfo ==
    \E label \in LabelInputs :
        Evaluate("getNutritionInfo", <<label>>, GetNutritionInfo(label))

CallFormatFoodLabel ==
    \E label \in LabelInputs :
        Evaluate("formatFoodLabel", <<label>>, FormatFoodLabel(label))

\* The form with the given numbers typed into its fields
FilledForm(g, w, h, a, level) ==
    [Unmounted EXCEPT !.mounted = TRUE,
                      !.weight = NumberToString(w),
                      !.height = NumberToString(h),
                      !.age = NumberToString(a),
                      !.gender = g,
                      !.activityLevel = level]

\* handleCalculateTDEE on a filled form: validateInputs, then the calculator
CalculateFromForm ==
    \E g \in AllGenders, w \in FormWeights, h \in FormHeights, a \in FormAges,
       level \in PickerLevels :
        LET f == FilledForm(g, w, h, a, level)
        IN  /\ ValidateInputs(f)
            /\ Evaluate("handleCalculateTDEE", <<g, w, h, a, level>>,
                        [bmr |-> CalculateBMR(g, ParseFloat(f.weight),
                                              ParseFloat(f.height),
                                              ParseInt(f.age)),
                         tdee |-> CalculatedTDEE(f)])

NextLogic ==
    \/ CallCalculateBMR
    \/ CallCalculateTDEE
    \/ CallGetNutritionInfo
    \/ CallFormatFoodLabel
    \/ CalculateFromForm

SpecLogic == InitApi /\ [][NextLogic]_vars

----------------------------------------------------------------------------
(* Properties *)

\* C1: getCoachingTip never throws; when the post fails (timeout, transport
\* error, non-2xx status) it resolves with the tip "You've logged {label}.
\* Keep tracking your meals!" made from the request's food label alone.
C1_AdviceNeverThrows ==
    \A i \in 1..Len(adviceCalls) :
        LET c == adviceCalls[i]
        IN  /\ ~c.result.threw
            /\ c.outcome \in {"timeout", "network_error", "http_error"} =>
                  c.result.data.coaching_tip =
                      << "You've logged " \o c.detected_food_label
                         \o ". Keep tracking your meals!" >>

C1_Witness ==
    \E i \in 1..Len(adviceCalls) :
        /\ adviceCalls[i].state = "FAILED"
        /\ adviceCalls[i].outcome = "timeout"
        /\ adviceCalls[i].result.data.coaching_tip =
              <<"You've logged hamburger. Keep tracking your meals!">>

\* C2: when the classification request fails (the image fetch, a transport
\* error, a timeout, a non-2xx status) predictFood throws and hands back no
\* label; a label it returns is the one the service answered with.
C2_PredictFailurePropagates ==
    \A i \in 1..Len(predictCalls) :
        LET c == predictCalls[i]
        IN  /\ c.outcome \in {"fetch_failed", "timeout", "network_error",
                              "http_error"} =>
                  c.result.threw /\ c.result.data.label = <<>>
            /\ c.result.data.label # <<>> =>
                  c.outcome = "ok" /\ c.result.data = c.payload

C2_Witness ==
    \E i, j \in 1..Len(predictCalls) :
        /\ predictCalls[i].outcome = "fetch_failed"
        /\ predictCalls[i].result.threw
        /\ predictCalls[j].outcome = "http_error"
        /\ predictCalls[j].result.threw

----------------------------------------------------------------------------
(* Reference notions the ledger's properties are stated with *)

\* The entries of ms dated d, in the order of ms
RECURSIVE EntriesOn(_, _)
EntriesOn(ms, d) ==
    IF ms = <<>> THEN <<>>
    ELSE (IF ms[1].date = d THEN <<ms[1]>> ELSE <<>>) \o EntriesOn(Tail(ms), d)

\* The calories of the first n entries of ms that are dated d
RECURSIVE CaloriesOn(_, _, _)
CaloriesOn(ms, d, n) ==
    IF n = 0 THEN 0
    ELSE CaloriesOn(ms, d, n - 1) + (IF ms[n].date = d THEN ms[n].calories ELSE 0)

Dates == {DateOf(t) : t \in 0..MaxClock}

\* Every call has settled successfully and the last state update is rendered
Quiescent ==
    /\ pendingWrites = <<>>
    /\ \A i \in 1..Len(calls) : calls[i].status = "resolved"
    /\ meals = mealsState

PersistedMeals == IF store.meals.kind = "json" THEN store.meals.data ELSE <<>>

\* C3: no two entries of the ledger share an id.
C3_UniqueIds ==
    \A i, j \in 1..Len(mealsState) :
        i # j => mealsState[i].id # mealsState[j].id

\* C4: once all calls have completed, the ledger and the persisted collection
\* hold every appended entry that no call removed, and no entry of an id that
\* was removed after the entry was appended.
C4_NoLostUpdates ==
    Quiescent =>
        \A i \in 1..Len(calls) :
            /\ ( /\ calls[i].op = "addMeal"
                 /\ ~\E j \in 1..Len(calls) :
                        /\ calls[j].op = "removeMeal"
                        /\ calls[j].arg.id = calls[i].arg.id )
               => /\ calls[i].arg \in Range(mealsState)
                  /\ calls[i].arg \in Range(PersistedMeals)
            /\ calls[i].op = "removeMeal" =>
                  \A e \in Range(mealsState) \cup Range(PersistedMeals) :
                      e.id = calls[i].arg.id =>
                          \E k \in (i + 1)..Len(calls) :
                              calls[k].op = "addMeal" /\ calls[k].arg = e

\* C5: the profile handed to setProfile has bmr = calculateBMR of its own
\* gender, weight, height and age, and tdee = calculateTDEE of that bmr and
\* its own activity level (stated for the profiles whose weight, height and
\* age are numbers).
C5_SavedProfileConsistent ==
    \A i \in 1..Len(calls) :
        LET p == calls[i].arg
        IN  ( /\ calls[i].op = "setProfile"
              /\ ~IsNaN(p.weight_kg) /\ ~IsNaN(p.height_cm) /\ ~IsNaN(p.age) )
            => /\ p.bmr = CalculateBMR(p.gender, p.weight_kg, p.height_cm,
                                        p.age)
               /\ p.tdee = CalculateTDEE(p.bmr, p.activity_level)

\* C6: an append followed by the remove of the id given to the appended
\* entry leaves, for every date, the entries of that date and their order as
\* they were before the append (stated for two calls made one after the
\* other, each seeing the ledger as the call before it left it).
C6_AppendRemoveRoundTrip ==
    LET n == Len(calls)
    IN  ( /\ n >= 2
          /\ calls[n - 1].op = "addMeal"
          /\ calls[n].op = "removeMeal"
          /\ calls[n].arg.id = calls[n - 1].arg.id
          /\ calls[n - 1].seen = calls[n - 1].prior
          /\ calls[n].seen = calls[n].prior )
        => \A d \in Dates :
               EntriesOn(mealsState, d) = EntriesOn(calls[n - 1].prior, d)

\* C7: a remove takes out of the ledger the entries of the given id and keeps
\* every other entry, in order; with no entry of that id the ledger stays as
\* it was.
C7_RemoveFrame ==
    LET n == Len(calls)
    IN  (n >= 1 /\ calls[n].op = "removeMeal") =>
            /\ mealsState =
                  SelectSeq(calls[n].prior, LAMBDA e : e.id # calls[n].arg.id)
            /\ (\A e \in Range(calls[n].prior) : e.id # calls[n].arg.id)
                  => mealsState = calls[n].prior

\* C8: the summary of today lists the ledger's entries dated today, in
\* insertion order, and totals their calories; a 295 kcal entry logged on
\* top of 1200 kcal makes the total 1495.
C8_SummaryOfLedger ==
    \A ms \in {meals, mealsState} :
        LET s == GetTodaysSummary(ms, now)
            today == DateOf(now)
            k == Len(s.meals)
        IN  /\ s.date = today
            /\ s.meals = EntriesOn(ms, today)
            /\ s.total_calories = CaloriesOn(ms, today, Len(ms))
            /\ ( /\ k >= 2
                 /\ s.meals[k].calories = 295
                 /\ CaloriesOn(s.meals, today, k - 1) = 1200 )
               => s.total_calories = 1495

C8_Witness ==
    /\ \E i \in 1..Len(calls) : calls[i].op = "addMeal"
    /\ \E e \in Range(meals) : e.date # DateOf(now)
    /\ LET s == GetTodaysSummary(meals, now)
       IN  /\ Len(s.meals) = 2
           /\ s.meals[2].calories = 295
           /\ s.total_calories = 1495

C10_SuccessOnlyAfterWrite ==
    \A i \in 1..Len(calls) :
        calls[i].status = "resolved" =>
            /\ calls[i].write = "done"
            /\ \A k \in 1..Len(pendingWrites) : pendingWrites[k].call # i

C10_Witness ==
    /\ Len(calls) = 2
    /\ calls[1].op = "setProfile"
    /\ calls[1].status = "resolved"
    /\ store.profile = JSONStringifyProfile(calls[1].arg)
    /\ calls[2].op = "addMeal"
    /\ calls[2].status = "rejected"
    /\ calls[2].write = "failed"

\* C11: a call of setProfile, addMeal or removeMeal whose write failed
\* rejects, its catch block having logged the error, and the screen that made
\* the call shows its error alert; a success alert ("Profile saved!", "Meal
\* Logged!") is shown only for a call whose write was done.
C11_FailedWriteReported ==
    \A i \in 1..Len(calls) :
        LET c == calls[i]
        IN  /\ c.write = "failed" =>
                  /\ c.status = "rejected"
                  /\ c.alert # <<>>
                  /\ c.alert[1].title = "Error"
                  /\ c.op = "setProfile" =>
                        c.alert[1].message =
                            "Failed to save profile. Please try again."
                  /\ \E k \in 1..Len(consoleErrors) :
                        consoleErrors[k] = WriteCatch(c.op)
            /\ (c.alert # <<>> /\ c.alert[1].title # "Error") =>
                  c.write = "done"
            /\ c.status = "resolved" => c.write = "done"

C11_Witness ==
    \E i, k \in 1..Len(calls) :
        /\ calls[i].op = "setProfile"
        /\ calls[i].write = "failed"
        /\ calls[i].status = "rejected"
        /\ calls[i].alert =
              <<[title |-> "Error",
                 message |-> "Failed to save profile. Please try again."]>>
        /\ consoleErrors = <<WriteCatch("setProfile")>>
        /\ calls[k].op = "addMeal"
        /\ calls[k].write = "done"
        /\ calls[k].alert[1].title = "Meal Logged!"

\* C12: loadData never throws: it always finishes (isLoading becomes false),
\* a record that cannot be parsed leaves its state absent (no profile, an
\* empty ledger), and a failed read or parse is logged once.
C12_LoadNeverThrows ==
    /\ []( (~isLoading /\ calls = <<>>) =>
             /\ readData.profile = Malformed => profileState = <<>>
             /\ readData.meals = Malformed => mealsState = <<>>
             /\ (readData.profile = Malformed \/ readData.meals = Malformed)
                   => /\ Len(consoleErrors) = 1
                      /\ consoleErrors[1].message =
                            "Error loading nutrition data:"
             /\ Len(consoleErrors) <= 1 )
    /\ <>(~isLoading)

C12_Witness ==
    /\ ~isLoading
    /\ readData.profile = Malformed
    /\ readData.meals = Malformed
    /\ profileState = <<>>
    /\ mealsState = <<>>
    /\ consoleErrors = <<LoadCatch("SyntaxError")>>

\* C13: after a startup whose reads succeeded, the ledger holds the stored
\* meal collection whenever that record is well-formed, and the profile is
\* the stored profile whenever that record is well-formed, whatever the
\* other record is.
C13_IndependentRecords ==
    ( /\ ~isLoading
      /\ calls = <<>>
      /\ \A k \in 1..Len(consoleErrors) :
            consoleErrors[k].error # "StorageError" )
    => /\ readData.meals.kind = "json" => mealsState = readData.meals.data
       /\ readData.profile.kind = "json" =>
             profileState = <<readData.profile.data>>

\* C14: the tip returned is the service's text for a 2xx answer with a
\* well-formed payload and the fallback tip for every other outcome, a 2xx
\* answer without a coaching_tip included; it is always a string.
C14_AdviceResultByOutcome ==
    \A i \in 1..Len(adviceCalls) :
        LET c == adviceCalls[i]
            fallback == << "You've logged " \o c.detected_food_label
                           \o ". Keep tracking your meals!" >>
        IN  c.state # "REQUESTING" =>
                /\ c.result.data.coaching_tip # <<>>
                /\ c.outcome = "ok" =>
                      c.result.data.coaching_tip = c.payload.coaching_tip
                /\ c.outcome # "ok" => c.result.data.coaching_tip = fallback

\* C15: a request starts in REQUESTING, leaves it only for SUCCEEDED or
\* FAILED, stays in the one it reached, and does leave REQUESTING.
C15_AdviceStateMachine ==
    /\ [][ /\ Len(adviceCalls') >= Len(adviceCalls)
           /\ \A i \in 1..Len(adviceCalls') :
                 IF i > Len(adviceCalls)
                 THEN adviceCalls'[i].state = "REQUESTING"
                 ELSE \/ adviceCalls'[i].state = adviceCalls[i].state
                      \/ /\ adviceCalls[i].state = "REQUESTING"
                         /\ adviceCalls'[i].state \in {"SUCCEEDED", "FAILED"} ]_vars
    /\ \A i \in 1..MaxApiCalls :
          (Len(adviceCalls) >= i /\ adviceCalls[i].state = "REQUESTING")
              ~> ( /\ Len(adviceCalls) >= i
                   /\ adviceCalls[i].state \in {"SUCCEEDED", "FAILED"} )

C15_Witness ==
    /\ Len(adviceCalls) >= 2
    /\ adviceCalls[1].state = "SUCCEEDED"
    /\ adviceCalls[1].outcome = "ok"
    /\ adviceCalls[2].state = "FAILED"
    /\ adviceCalls[2].outcome = "timeout"

\* No request is in flight
AdviceSettled == \A i \in 1..Len(adviceCalls) : adviceCalls[i].state # "REQUESTING"

\* Nothing is left for the program to do without the user: no write to be
\* served, no render due, no request in flight
AtRest ==
    /\ pendingWrites = <<>>
    /\ <<profile, meals>> = <<profileState, mealsState>>
    /\ AdviceSettled

\* C16: once every request has resolved, a tip on display is the result of
\* the request issued last, in whatever order the answers arrived.
C16_LastRequestWins ==
    LET n == Len(adviceCalls)
    IN  ( /\ n >= 1
          /\ AdviceSettled
          /\ dashboard.coachingTip # <<>>
          /\ adviceCalls[n].result.data.coaching_tip # <<>> )
        => dashboard.coachingTip = adviceCalls[n].result.data.coaching_tip

\* C17: a request the dashboard issues names the last entry of today's
\* entries of the ledger, carries today's total less that entry's calories
\* and the profile's tdee, so that calories before + the entry's calories is
\* today's total; for tdee 2500, 1200 before and 295 the remaining is 1005.
C17_AdviceRequestBuilt ==
    [][ Len(adviceCalls') > Len(adviceCalls) =>
          LET r == adviceCalls'[Len(adviceCalls')]
              today == GetTodaysMeals(meals, now)
              total == GetTodaysSummary(meals, now).total_calories
          IN  /\ today # <<>>
              /\ r.detected_food_label = today[Len(today)].food_label
              /\ r.detected_food_calories = today[Len(today)].calories
              /\ r.calories_consumed_so_far + r.detected_food_calories = total
              /\ r.user_tdee = profile[1].tdee
              /\ r.user_goal = profile[1].goal
              /\ ( /\ r.user_tdee = 2500
                   /\ r.detected_food_calories = 295
                   /\ total = 1495 )
                 => /\ r.calories_consumed_so_far = 1200
                    /\ r.user_tdee - total = 1005 ]_vars

\* C18: a request is sent only with a profile and with an entry of the
\* ledger dated the current day; a fetch that sends none leaves no tip.
C18_NoCoachingWithoutData ==
    [][ /\ Len(adviceCalls') > Len(adviceCalls) =>
              /\ profile # <<>>
              /\ GetTodaysMeals(meals, now) # <<>>
        /\ ( /\ dashboard' # dashboard
             /\ adviceCalls' = adviceCalls
             /\ <<profile', meals'>> = <<profile, meals>> )
           => dashboard'.coachingTip = <<>> ]_vars

\* C19: once the program is at rest after a successful append of an entry
\* for today, a request for that entry has been issued.
C19_TipFollowsNewMeal ==
    LET n == Len(calls)
    IN  ( /\ AtRest
          /\ n >= 1
          /\ calls[n].op = "addMeal"
          /\ calls[n].status = "resolved"
          /\ calls[n].arg.date = DateOf(now)
          /\ dashboard.renderedAt = now )
        => \E i \in 1..Len(adviceCalls) :
               /\ adviceCalls[i].detected_food_label = calls[n].arg.food_label
               /\ adviceCalls[i].detected_food_calories = calls[n].arg.calories

\* A text that is present and parses to a positive number no greater than max
PresentPositiveWithin(text, max) ==
    /\ text # <<>>
    /\ ~IsNaN(ParseFloat(text))
    /\ ParseFloat(text) > 0
    /\ ParseFloat(text) <= max

\* C20: the calculator runs (the form's tdee result is set) and setProfile is
\* called only from a form whose weight, height and age are present and each
\* parses to a positive number within range (300, 250, 150).
C20_ValidationRejectsInvalid ==
    [][ ( /\ form.mounted
          /\ \/ form'.tdeeResult # form.tdeeResult
             \/ /\ Len(calls') > Len(calls)
                /\ calls'[Len(calls')].op = "setProfile" )
        => /\ PresentPositiveWithin(form.weight, 300)
           /\ PresentPositiveWithin(form.height, 250)
           /\ PresentPositiveWithin(form.age, 150) ]_vars

\* C21: whatever validateInputs accepts gives a bmr above 0 and a tdee that
\* is an integer of at least 1, so no percentage of the budget divides by
\* zero or by a negative number.
C21_ValidatedProfilePositive ==
    evaluation.fn = "handleCalculateTDEE" =>
        /\ evaluation.result.bmr > 0
        /\ evaluation.result.tdee \in Nat \ {0}

\* The Mifflin-St Jeor value, in quarters of a kcal
MifflinStJeor(g, w, h, a) ==
    40 * w + 25 * h - 20 * a
        + (IF g = "male" THEN 20 ELSE IF g = "female" THEN 0 - 644 ELSE 0 - 312)

TableMultiplier(level) ==
    LET key == NormalizeKey(level)
        rows == {k \in {"sedentary", "lightly_active", "moderately_active", "very_active", "super_active"} : Spelling[k] = key}
    IN  IF rows = {} THEN 48 ELSE ACTIVITY_MULTIPLIERS[CHOOSE k \in rows : TRUE]

\* C23: calculateTDEE is round(bmr x m), m being the table's multiplier of
\* the normalized level and 1.2 for every level the table does not list; the
\* result is always an integer, and levels that differ only by case or by
\* space versus underscore give the same result.
C23_TDEEFormula ==
    evaluation.fn = "calculateTDEE" =>
        LET bmr == evaluation.args[1]
            level == evaluation.args[2]
        IN  /\ ~IsNaN(evaluation.result)
            /\ evaluation.result = MathRound(bmr * TableMultiplier(level), 160)
            /\ \A other \in LevelInputs :
                  NormalizeKey(other) = NormalizeKey(level)
                      => CalculateTDEE(bmr, other) = evaluation.result
            /\ (bmr = 7200 /\ level \in {"sedentary", "unknown_level"})
                  => evaluation.result = 2160

\* C24: getNutritionInfo of 'PIZZA', of 'pizza' and of 'pizza ' is the pizza
\* fact, 266 kcal per 'slice (100g)'.
C24_PizzaLookup ==
    ( /\ evaluation.fn = "getNutritionInfo"
      /\ evaluation.args[1] \in {"PIZZA", "pizza", "pizza "} )
    => evaluation.result = [calories |-> 266, unit |-> "slice (100g)"]

\* C24, amended: getNutritionInfo of 'PIZZA' and of 'pizza' is the pizza
\* fact, 266 kcal per 'slice'; whitespace at the end of a label is not
\* dropped but made an underscore, so 'pizza ' is looked up as 'pizza_' and
\* gets the fallback, 250 kcal per 'serving (est)'.
C24_PizzaLookupAmended ==
    evaluation.fn = "getNutritionInfo" =>
        /\ evaluation.args[1] \in {"PIZZA", "pizza"}
              => evaluation.result = [calories |-> 266, unit |-> "slice"]
        /\ evaluation.args[1] = "pizza "
              => evaluation.result = [calories |-> 250, unit |-> "serving (est)"]

C24_Witness ==
    evaluation = [fn |-> "getNutritionInfo", args |-> <<"pizza ">>,
                  result |-> [calories |-> 250, unit |-> "serving (est)"]]

\* C25: getNutritionInfo of any label is the table's entry of the normalized
\* label when the table has that key and the fallback, 250 kcal per
\* 'serving (est)', otherwise; labels that normalize alike get equal facts.
C25_LookupTotal ==
    evaluation.fn = "getNutritionInfo" =>
        LET key == NormalizeKey(evaluation.args[1])
            rows == {k \in {"eggs_benedict", "hamburger", "pizza"} : Spelling[k] = key}
        IN  /\ evaluation.result =
                  IF rows = {}
                  THEN [calories |-> 250, unit |-> "serving (est)"]
                  ELSE FOOD_101_NUTRITION_MAP[CHOOSE k \in rows : TRUE]
            /\ \A other \in LabelInputs :
                  NormalizeKey(other) = key
                      => GetNutritionInfo(other) = evaluation.result

\* C29: formatFoodLabel puts a space for every underscore, an upper-case
\* character at the start of every token and lower-case characters after it:
\* 'Chicken Quesadilla' for 'chicken_quesadilla' and 'Pizza' for 'PIZZA'.
C29_FormatTitleCase ==
    evaluation.fn = "formatFoodLabel" =>
        LET in == Spelling[evaluation.args[1]]
            out == evaluation.result
        IN  /\ Len(out) = Len(in)
            /\ \A i \in 1..Len(in) :
                  IF in[i] = "_" THEN out[i] = " "
                  ELSE IF i = 1 \/ in[i - 1] = "_"
                       THEN out[i] = ToUpperCase(<<in[i]>>)[1]
                       ELSE out[i] = ToLowerCase(<<in[i]>>)[1]
            /\ evaluation.args[1] = "chicken_quesadilla"
                  => out = Spelling["Chicken Quesadilla"]
            /\ evaluation.args[1] = "PIZZA" => out = Spelling["Pizza"]

C29_Witness ==
    evaluation = [fn |-> "formatFoodLabel", args |-> <<"chicken_quesadilla">>,
                  result |-> Spelling["Chicken Quesadilla"]]

\* The entries of the ledger: those of the state cell, those rendered and
\* those persisted
LedgerEntries ==
    Range(mealsState) \cup Range(meals)
        \cup (IF store.meals.kind = "json" THEN Range(store.meals.data) ELSE {})

\* C26: every entry of the ledger has a whole quantity of at least 1 and
\* calories that are the calories of its label's fact times that quantity,
\* above 0, whatever was pressed on the quantity selector before logging.
C26_EntryQuantityAndCalories ==
    \A e \in LedgerEntries :
        /\ e.quantity \in Nat \ {0}
        /\ e.calories = GetNutritionInfo(e.food_label).calories * e.quantity
        /\ e.calories > 0

C26_Witness ==
    \E e \in Range(mealsState) :
        /\ e.food_label = "unknown_xyz"
        /\ e.quantity = 3
        /\ e.calories = 750

\* g is n / d rounded to the nearest whole number, a tie going up (d > 0)
IsRounded(g, n, d) == 2 * d * g - d <= 2 * n /\ 2 * n < 2 * d * g + d

\* C27: the macro estimates of a summary are round(total x 0.30 / 4),
\* round(total x 0.45 / 4) and round(total x 0.25 / 9) of its total calories,
\* whole numbers not below 0, and all 0 when no meal is logged today.
C27_MacroDecomposition ==
    \A ms \in {meals, mealsState} :
        LET summary == GetTodaysSummary(ms, now)
            total == summary.total_calories
        IN  /\ IsRounded(summary.total_protein, 30 * total, 400)
            /\ IsRounded(summary.total_carbs, 45 * total, 400)
            /\ IsRounded(summary.total_fats, 25 * total, 900)
            /\ {summary.total_protein, summary.total_carbs, summary.total_fats} \subseteq Nat
            /\ summary.meals = <<>> =>
                  /\ total = 0
                  /\ summary.total_protein = 0
                  /\ summary.total_carbs = 0
                  /\ summary.total_fats = 0

C27_Witness ==
    LET summary == GetTodaysSummary(meals, now)
    IN  /\ summary.total_calories = 885
        /\ summary.total_protein = 66
        /\ summary.total_carbs = 100
        /\ summary.total_fats = 25
        /\ Len(meals) = 2

\* C30: an entry of the ledger stays as it is from one state to the next, field
\* for field, unless the step is a removeMeal of its id; no entry of the next
\* state bears the id of an entry with other fields.
C30_EntriesImmutable ==
    [][ \A e \in Range(mealsState) :
          /\ \/ e \in Range(mealsState')
             \/ /\ Len(calls') = Len(calls) + 1
                /\ calls'[Len(calls')].op = "removeMeal"
                /\ calls'[Len(calls')].arg.id = e.id
          /\ \A e2 \in Range(mealsState') : e2.id = e.id => e2 = e ]_vars

\* C35: in no state does the rendered dashboard show a coaching tip while the
\* list of today's meals it renders is empty.
C35_NoTipWithoutMeals == TodaysMeals = <<>> => ~TipDisplayed

\* C36: loadingCoaching is true exactly while at least one advice request of
\* the dashboard is in flight.
C36_LoadingWhileRequesting ==
    dashboard.loadingCoaching
        <=> \E i \in 1..Len(adviceCalls) : adviceCalls[i].state = "REQUESTING"

\* C32: when the write of the latest addMeal, removeMeal or setProfile has
\* failed, the ledger in memory is the ledger as it was before that call;
\* and when every write so far has failed, ledger and profile in memory are
\* still the stored ones.
C32_UnchangedOnWriteError ==
    /\ \A i \in 1..Len(calls) :
          i = Len(calls) /\ calls[i].status = "rejected"
              => mealsState = calls[i].prior
    /\ (calls # <<>> /\ \A i \in 1..Len(calls) : calls[i].status = "rejected")
          => /\ mealsState = (IF Truthy(store.meals) THEN JSONParse(store.meals)
                              ELSE <<>>)
             /\ profileState = <<JSONParse(store.profile)>>

\* C33: whenever no call is pending and every write has succeeded, the stored
\* meal collection is the ledger in memory and the stored profile the profile
\* in memory.
C33_StoreAgreesAtQuiescence ==
    (/\ pendingWrites = <<>>
     /\ \A i \in 1..Len(calls) :
           calls[i].status = "resolved" /\ calls[i].write = "done")
        => /\ mealsState = (IF Truthy(store.meals) THEN JSONParse(store.meals)
                            ELSE <<>>)
           /\ profileState = <<JSONParse(store.profile)>>

\* The entries the store held when the provider mounted
StoredEntries ==
    IF readData.meals.kind = "json" THEN JSONParse(readData.meals) ELSE <<>>

\* The stored entries with a call of addMeal or removeMeal applied
WithCallApplied(c) ==
    IF c.op = "addMeal" THEN Append(StoredEntries, c.arg)
    ELSE SelectSeq(StoredEntries, LAMBDA meal : meal.id # c.arg.id)

\* loadData went through without reaching its catch block
LoadSucceeded ==
    /\ ~isLoading
    /\ \A e \in Range(consoleErrors) : e # LoadCatch(e.error)

C39_FiguresInRange ==
    profile # <<>> =>
        LET total == TodaysSummary.total_calories
            tdee == profile[1].tdee
        IN  /\ ~IsNaN(CaloriesRemaining)
            /\ CaloriesRemaining >= 0
            /\ CaloriesRemaining = (IF tdee - total > 0 THEN tdee - total ELSE 0)
            /\ ~IsNaN(RoundedPercentage)
            /\ RoundedPercentage \in 0..100
            /\ IsOverCalories <=> (~IsNaN(tdee) /\ total > tdee)

\* The classification of the image now selected that answered with a label
ClassifiedAs(label) ==
    \E i \in 1..Len(predictCalls) :
        /\ scan.selectedImage = <<predictCalls[i].imageUri>>
        /\ predictCalls[i].outcome = "ok"
        /\ predictCalls[i].payload.label = <<label>>

\* C31: every addMeal issued appends an entry whose food_label is the
\* non-empty label a succeeded classification of the selected image returned;
\* when a classification fails or returns no label, the flow goes to
\* 'preview' and the ledger and the calls of addMeal stay as they are.
C31_LogOnlyClassified ==
    [][ /\ Len(calls') > Len(calls) =>
              LET entry == calls'[Len(calls')].arg
              IN  /\ entry.food_label # ""
                  /\ ClassifiedAs(entry.food_label)
                  /\ mealsState'[Len(mealsState')] = entry
        /\ \A i \in 1..Len(predictCalls) :
              (/\ predictCalls[i].state = "requesting"
               /\ predictCalls'[i].state = "settled"
               /\ \/ predictCalls'[i].result.threw
                  \/ predictCalls'[i].payload.label \in {<<>>, <<"">>})
                 => /\ scan'.scanState = "preview"
                    /\ scan'.prediction = scan.prediction
                    /\ calls' = calls
                    /\ mealsState' = mealsState ]_vars

\* C37: in 'result' a prediction with a non-empty label is held, so the
\* screen's last branch (`return null`) is never the one rendered; and every
\* step from 'result' to 'ready' leaves no prediction and quantity 1.
C37_ResultHoldsPrediction ==
    /\ [](scan.scanState = "result" =>
             /\ scan.prediction # <<>>
             /\ scan.prediction[1].label # <<>>
             /\ scan.prediction[1].label[1] # "")
    /\ [][(scan.scanState = "result" /\ scan'.scanState = "ready") =>
             (scan'.prediction = <<>> /\ scan'.quantity = 1)]_vars

C37_Witness ==
    /\ scan.scanState = "ready"
    /\ scan.closed = {1}
    /\ scan.prediction = <<>>
    /\ scan.quantity = 1
    /\ Len(calls) = 1
    /\ calls[1].arg.quantity = 2
    /\ calls[1].arg.food_label = "eggs_benedict"
    /\ Len(predictCalls) = 1

\* The analysis of call i is awaited
Analyzing(i) == i <= Len(predictCalls) /\ predictCalls[i].state = "requesting"

\* C38: every analysis started settles, and the step at which it settles
\* takes the flow to 'result' when the answer carries a label and to
\* 'preview' otherwise, with isLoading false; so 'analyzing' always leads to
\* one of the two with isLoading false.
C38_AnalyzingIsTransient ==
    /\ \A i \in 1..MaxApiCalls : Analyzing(i) ~> ~Analyzing(i)
    /\ scan.scanState = "analyzing"
          ~> (scan.scanState \in {"result", "preview"} /\ ~scan.isLoading)
    /\ [][\A i \in 1..Len(predictCalls) :
             (Analyzing(i) /\ predictCalls'[i].state = "settled") =>
                /\ ~scan'.isLoading
                /\ scan'.scanState =
                      IF /\ predictCalls'[i].outcome = "ok"
                         /\ predictCalls'[i].payload.label \notin {<<>>, <<"">>}
                      THEN "result" ELSE "preview"]_vars

C38_Witness ==
    /\ scan.scanState = "preview"
    /\ ~scan.isLoading
    /\ Len(predictCalls) = 2
    /\ predictCalls[1].outcome = "ok"
    /\ predictCalls[2].outcome = "timeout"

====
